---- MODULE Spec2Model ----
(***************************************************************************)
(* Escrow bot: the per-user conversation sessions (aiogram FSM state and   *)
(* data) and the deal store, with one action per handler of start.py,      *)
(* escrow.py, payment.py and admin.py.                                     *)
(*                                                                         *)
(* utils/database.py, utils/security.py and config.py are imported by the  *)
(* handlers but are not part of the sources read here; the operators that  *)
(* stand for them (get_deal, create_deal, update_deal_status,              *)
(* create_payment_record, get_user, create_user, is_admin, the rate_limit  *)
(* admission) follow the Deal Store and Authorization Gate contracts of    *)
(* the written specification.                                              *)
(***************************************************************************)
EXTENDS Integers, Sequences, FiniteSets, TLC

VARIABLES
    users,      \* ids of the User rows of the store
    deals,      \* deal id -> Deal row, or None when the id is not in the store
    payments,   \* the PaymentRecord rows, in creation order
    stage,      \* user -> FSM state of that user's session
    data,       \* user -> FSM data (the collected fields) of that user's session
    accepted,   \* history: user -> the inputs the authoring stages accepted
    inflight,   \* slot -> the handler call suspended at an await, or NoTask
    last        \* history: the request handled last, its outcome and store effects

vars == <<users, deals, payments, stage, data, accepted, inflight, last>>

(***************************************************************************)
(* Bounds of the model.                                                    *)
(***************************************************************************)
MaxPayments == 1        \* PaymentRecord rows kept before proof turns stop
MaxInFlight == 2        \* handler calls that can be suspended at the same time

Users == {"op", "usr"}  \* two Telegram accounts
Admins == {"op"}        \* the allow-listed operator
DealIds == {"D1", "D2"} \* the tokens uuid4()[:8] can yield in the model

None == "None"          \* Python None where a string (an id) is expected

(***************************************************************************)
(* Message texts.  A text is kept as its shape: the number of leading and  *)
(* trailing whitespace characters around a core that starts and ends with  *)
(* a non-blank.  The core is either ordinary characters (form "chars", n   *)
(* of them, never a numeral) or a numeral: an optionally negative decimal  *)
(* with `int` as integer part, `commas` thousands separators and, when dot *)
(* is set, a two-digit fraction `frac`; or one of the words nan and inf.   *)
(***************************************************************************)
Chars(lead, n, trail) ==
    [lead |-> lead, trail |-> trail, form |-> "chars", n |-> n,
     neg |-> FALSE, int |-> 0, dot |-> FALSE, frac |-> 0, commas |-> 0]

Dec(neg, int, dot, frac, commas) ==
    [lead |-> 0, trail |-> 0, form |-> "dec", n |-> 0,
     neg |-> neg, int |-> int, dot |-> dot, frac |-> frac, commas |-> commas]

Word(form, neg) ==
    [lead |-> 0, trail |-> 0, form |-> form, n |-> 0,
     neg |-> neg, int |-> 0, dot |-> FALSE, frac |-> 0, commas |-> 0]

\* message.text of a message without text, or an absent text field
NoText == Word("none", FALSE)

Padded(s, lead, trail) == [s EXCEPT !.lead = lead, !.trail = trail]

RECURSIVE NumDigits(_)
NumDigits(k) == IF k < 10 THEN 1 ELSE 1 + NumDigits(k \div 10)

\* len() of the core of a text
CoreLen(s) ==
    CASE s.form = "chars" -> s.n
      [] s.form = "dec"   -> (IF s.neg THEN 1 ELSE 0) + NumDigits(s.int) + s.commas
                             + (IF s.dot THEN 3 ELSE 0)
      [] OTHER            -> (IF s.neg THEN 1 ELSE 0) + 3

\* Python len(s)
StrLen(s) == s.lead + CoreLen(s) + s.trail

\* Python s.strip()
Strip(s) == [s EXCEPT !.lead = 0, !.trail = 0]

\* Python s.replace(',', '')
RemoveCommas(s) ==
    IF s.form = "dec" THEN [s EXCEPT !.commas = 0] ELSE s

(***************************************************************************)
(* Python floats, in hundredths: a finite value h/100, nan, inf or -inf.   *)
(***************************************************************************)
Fin(h) == [k |-> "fin", h |-> h]
NaN == [k |-> "nan", h |-> 0]
PosInf == [k |-> "inf", h |-> 0]
NegInf == [k |-> "ninf", h |-> 0]
NoFloat == [k |-> "none", h |-> 0]          \* None where a float is expected
ValueError == [k |-> "ValueError", h |-> 0] \* float() raised ValueError

\* Python float(s): blanks around the numeral are tolerated, a comma is not
ParseFloat(s) ==
    CASE s.form = "chars" -> ValueError
      [] s.form = "nan"   -> NaN
      [] s.form = "inf"   -> IF s.neg THEN NegInf ELSE PosInf
      [] s.form = "dec"   ->
            IF s.commas > 0 THEN ValueError
            ELSE Fin((IF s.neg THEN -1 ELSE 1)
                     * (s.int * 100 + (IF s.dot THEN s.frac ELSE 0)))

\* IEEE comparison a < b : false whenever an operand is nan
FloatLt(a, b) ==
    CASE a.k = "nan" \/ b.k = "nan" -> FALSE
      [] a.k = "ninf" -> b.k # "ninf"
      [] a.k = "inf"  -> FALSE
      [] b.k = "ninf" -> FALSE
      [] b.k = "inf"  -> TRUE
      [] OTHER        -> a.h < b.h

FloatGt(a, b) == FloatLt(b, a)

\* Python f"{amount:,.2f}": raises TypeError on None
CanFormat(amount) == amount # NoFloat

(***************************************************************************)
(* Limits written in the handlers.                                         *)
(***************************************************************************)
MinDescription == 10
MaxDescription == 500
MinAmount == 100
MaxAmount == 500000
MinTerms == 20
MaxTerms == 1000
MinReference == 8

(***************************************************************************)
(* Messages: a text message, a photo (message.text is None) or any other   *)
(* message that carries neither (a sticker, a location).                   *)
(***************************************************************************)
TextMsg(s) == [kind |-> "text", text |-> s]
PhotoMsg == [kind |-> "photo", text |-> NoText]
OtherMsg == [kind |-> "other", text |-> NoText]
NoMsg == [kind |-> "none", text |-> NoText]     \* the request is a button press

(***************************************************************************)
(* Sessions: aiogram's FSMContext of a user, a state and a data dict.      *)
(***************************************************************************)
Idle == "idle"
waiting_for_description == "waiting_for_description"
waiting_for_amount == "waiting_for_amount"
waiting_for_terms == "waiting_for_terms"
waiting_for_confirmation == "waiting_for_confirmation"
waiting_for_payment_proof == "waiting_for_payment_proof"

Stages == {Idle, waiting_for_description, waiting_for_amount, waiting_for_terms,
           waiting_for_confirmation, waiting_for_payment_proof}

\* the empty data dict: every key absent
EmptyData == [description |-> NoText, amount |-> NoFloat, terms |-> NoText,
              deal_id |-> None]

\* made: the deals materialized since the session was last cleared
NoneAccepted ==
    [description |-> NoText, amount |-> NoFloat, terms |-> NoText, made |-> 0]

(***************************************************************************)
(* The Deal Store.                                                         *)
(***************************************************************************)
NoDeal == [deal_id |-> None, creator_id |-> None, description |-> NoText,
           amount |-> NoFloat, terms |-> NoText, status |-> "absent"]

Statuses == {"created", "funded", "completed", "disputed", "cancelled"}

\* getDeal(id) -> Deal | absent
get_deal(deal_id) == deals[deal_id]

\* createDeal(id, creatorId, description, amount, terms): the row, status created
create_deal(ds, deal_id, creator_id, description, amount, terms) ==
    [ds EXCEPT ![deal_id] =
        [deal_id |-> deal_id, creator_id |-> creator_id, description |-> description,
         amount |-> amount, terms |-> terms, status |-> "created"]]

\* updateStatus(id, newStatus) -> ok | not-found: one write of the status column
update_deal_status(ds, deal_id, status) ==
    IF ds[deal_id] = NoDeal THEN ds ELSE [ds EXCEPT ![deal_id].status = status]

\* the store effects of update_deal_status: a write when the row exists
StatusWrite(ds, deal_id) ==
    IF ds[deal_id] = NoDeal THEN <<>> ELSE <<"update_deal_status">>

\* createPaymentRecord(dealId, payerId, amount, method, referenceId, status)
create_payment_record(ps, deal_id, payer_id, amount, payment_method, reference_id, status) ==
    Append(ps, [deal_id |-> deal_id, payer_id |-> payer_id, amount |-> amount,
                payment_method |-> payment_method, reference_id |-> reference_id,
                status |-> status])

\* a caller is an operator when he is on the fixed allow-list
is_admin(user_id) == user_id \in Admins

(***************************************************************************)
(* Handler calls in flight.  A handler is a coroutine: between two awaits  *)
(* it runs alone, at an await of the store or of the session storage other *)
(* calls may run.  A suspended call keeps what it has read so far.         *)
(***************************************************************************)
Slots == 1..MaxInFlight

\* seen: the row get_deal returned; stage, data: the session as the call
\* found it and as its own writes left it since
NoTask ==
    [op |-> "none", user |-> None, deal |-> None, msg |-> NoMsg, pc |-> "none",
     seen |-> NoDeal, stage |-> Idle, data |-> EmptyData]

Task(op, u, d, m, pc, seen) ==
    [op |-> op, user |-> u, deal |-> d, msg |-> m, pc |-> pc,
     seen |-> seen, stage |-> stage[u], data |-> data[u]]

\* a dispatcher that starts a handler for every update at once
FreeAlways(u) == u \in Users

\* the dispatcher hands an update of user u to a handler only when no call
\* for that user is in flight
Free(u) == \A s \in Slots : inflight[s].user # u

\* the slot a new call takes
FreeSlot(s) == inflight[s] = NoTask /\ \A r \in 1..(s - 1) : inflight[r] # NoTask

(***************************************************************************)
(* History of the request handled last.                                    *)
(***************************************************************************)
\* `before` is the status of the addressed deal when the request arrives,
\* `from` the stage of the sender's session then
Req(op, u, d, m, out, eff) ==
    [op |-> op, user |-> u, deal |-> d, msg |-> m, out |-> out, eff |-> eff,
     before |-> IF d \in DealIds THEN deals[d].status ELSE "none",
     seen |-> "none",
     from |-> IF u \in Users THEN stage[u] ELSE Idle]

NoReq ==
    [op |-> "none", user |-> None, deal |-> None, msg |-> NoMsg, out |-> "none",
     eff |-> <<>>, before |-> "none", seen |-> "none", from |-> Idle]

\* the handler returns: the request is recorded, and the calls suspended at
\* an await stay where they are
Handled(op, u, d, m, out, eff) ==
    /\ last' = Req(op, u, d, m, out, eff)
    /\ UNCHANGED inflight

NoSessionChange == UNCHANGED <<stage, data, accepted>>
NoStoreChange == UNCHANGED <<users, deals, payments>>

\* a clear of a storage that keeps one session for all users
ClearedEveryone(u) ==
    /\ stage' = [v \in Users |-> Idle]
    /\ data' = [v \in Users |-> EmptyData]
    /\ accepted' = [v \in Users |-> NoneAccepted]

\* a clear that resets the state and keeps the data
ClearedStateOnly(u) ==
    /\ stage' = [stage EXCEPT ![u] = Idle]
    /\ UNCHANGED <<data, accepted>>

\* state.clear() of user u
Cleared(u) ==
    /\ stage' = [stage EXCEPT ![u] = Idle]
    /\ data' = [data EXCEPT ![u] = EmptyData]
    /\ accepted' = [accepted EXCEPT ![u] = NoneAccepted]

\* a limiter that turns the call away after the session was cleared
RateLimitedCleared(op, u, d) ==
    /\ Handled(op, u, d, NoMsg, "rate_limited", <<"clear">>)
    /\ stage' = [stage EXCEPT ![u] = Idle]
    /\ data' = [data EXCEPT ![u] = EmptyData]
    /\ UNCHANGED accepted
    /\ NoStoreChange

\* a call the rate limiter turns away: the handler body does not run
RateLimited(op, u, d) ==
    /\ Handled(op, u, d, NoMsg, "rate_limited", <<>>)
    /\ NoSessionChange
    /\ NoStoreChange

Init ==
    /\ users = {}
    /\ deals = [d \in DealIds |-> NoDeal]
    /\ payments = <<>>
    /\ stage = [u \in Users |-> Idle]
    /\ data = [u \in Users |-> EmptyData]
    /\ accepted = [u \in Users |-> NoneAccepted]
    /\ inflight = [s \in Slots |-> NoTask]
    /\ last = NoReq

(***************************************************************************)
(* start.py                                                                *)
(***************************************************************************)
\* /start: register the user on first contact, then clear the session
start_handler(u, admit) ==
    IF ~admit THEN RateLimited("start_handler", u, None)
    ELSE /\ users' = users \cup {u}
         /\ UNCHANGED <<deals, payments>>
         /\ Cleared(u)
         /\ Handled("start_handler", u, None, NoMsg,
                        IF u \in users THEN "welcome_back" ELSE "onboarding",
                        (IF u \in users THEN <<>> ELSE <<"create_user">>)
                            \o <<"clear">>)

\* the main_menu button
show_main_menu(u) ==
    /\ Cleared(u)
    /\ NoStoreChange
    /\ Handled("show_main_menu", u, None, NoMsg,
                   "menu", <<"clear">>)

(***************************************************************************)
(* escrow.py: the authoring flow                                           *)
(***************************************************************************)
\* the create_deal button: only the state is set, the data dict is kept
start_deal_creation(u, admit) ==
    IF ~admit THEN RateLimited("start_deal_creation", u, None)
    ELSE /\ stage' = [stage EXCEPT ![u] = waiting_for_description]
         /\ UNCHANGED <<data, accepted>>
         /\ NoStoreChange
         /\ Handled("start_deal_creation", u, None, NoMsg,
                        "started",
                        <<"set_state">>)

\* a description test whose lower limit is one character short
DescriptionCheckShort(description) ==
    IF StrLen(description) < MinDescription - 1 THEN "too_short"
    ELSE IF StrLen(description) > MaxDescription THEN "too_long"
    ELSE "accepted"

\* the two length tests of process_description
DescriptionCheck(description) ==
    IF StrLen(description) < MinDescription THEN "too_short"
    ELSE IF StrLen(description) > MaxDescription THEN "too_long"
    ELSE "accepted"

\* description = message.text.strip()
DescriptionOf(m) == Strip(m.text)

\* a message while the state is waiting_for_description
process_description(u, m) ==
    /\ stage[u] = waiting_for_description
    /\ NoStoreChange
    /\ IF m.text = NoText
       THEN \* None.strip() raises AttributeError: the turn ends there
            /\ NoSessionChange
            /\ Handled("process_description", u, None, m,
                           "exception", <<>>)
       ELSE LET description == DescriptionOf(m)
                out == DescriptionCheck(description)
            IN  IF out # "accepted"
                THEN /\ NoSessionChange
                     /\ Handled("process_description", u, None, m,
                                    out, <<>>)
                ELSE /\ data' = [data EXCEPT ![u].description = description]
                     /\ stage' = [stage EXCEPT ![u] = waiting_for_amount]
                     /\ accepted' = [accepted EXCEPT ![u].description = Strip(m.text)]
                     /\ Handled("process_description", u, None, m,
                                    out,
                                    <<"update_data", "set_state">>)

\* amount = float(message.text.strip().replace(',', ''))
AmountOf(m) == ParseFloat(RemoveCommas(Strip(m.text)))

\* range tests that answer with the message of the except branch
AmountCheckOneError(amount) ==
    IF amount = ValueError THEN "invalid_number"
    ELSE IF FloatLt(amount, Fin(MinAmount * 100)) THEN "invalid_number"
    ELSE IF FloatGt(amount, Fin(MaxAmount * 100)) THEN "invalid_number"
    ELSE "accepted"

\* range tests without the test of the minimum
AmountCheckNoMinimum(amount) ==
    IF amount = ValueError THEN "invalid_number"
    ELSE IF FloatGt(amount, Fin(MaxAmount * 100)) THEN "above_max"
    ELSE "accepted"

\* the except branch and the two range tests of process_amount
AmountCheck(amount) ==
    IF amount = ValueError THEN "invalid_number"
    ELSE IF FloatLt(amount, Fin(MinAmount * 100)) THEN "below_min"
    ELSE IF FloatGt(amount, Fin(MaxAmount * 100)) THEN "above_max"
    ELSE "accepted"

\* a message while the state is waiting_for_amount
process_amount(u, m) ==
    /\ stage[u] = waiting_for_amount
    /\ NoStoreChange
    /\ IF m.text = NoText
       THEN \* AttributeError is not caught by `except ValueError`
            /\ NoSessionChange
            /\ Handled("process_amount", u, None, m,
                           "exception", <<>>)
       ELSE LET amount == AmountOf(m)
                out == AmountCheck(amount)
            IN  IF out # "accepted"
                THEN /\ NoSessionChange
                     /\ Handled("process_amount", u, None, m,
                                    out, <<>>)
                ELSE /\ data' = [data EXCEPT ![u].amount = amount]
                     /\ stage' = [stage EXCEPT ![u] = waiting_for_terms]
                     /\ accepted' = [accepted EXCEPT ![u].amount =
                                        ParseFloat(RemoveCommas(Strip(m.text)))]
                     /\ Handled("process_amount", u, None, m,
                                    out,
                                    <<"update_data", "set_state">>)

\* the two length tests of process_terms
TermsCheck(terms) ==
    IF StrLen(terms) < MinTerms THEN "too_short"
    ELSE IF StrLen(terms) > MaxTerms THEN "too_long"
    ELSE "accepted"

\* terms = message.text.strip()
TermsOf(m) == Strip(m.text)

\* a message while the state is waiting_for_terms
process_terms(u, m) ==
    /\ stage[u] = waiting_for_terms
    /\ NoStoreChange
    /\ IF m.text = NoText
       THEN /\ NoSessionChange
            /\ Handled("process_terms", u, None, m,
                           "exception", <<>>)
       ELSE LET terms == TermsOf(m)
                out == TermsCheck(terms)
            IN  IF out # "accepted"
                THEN /\ NoSessionChange
                     /\ Handled("process_terms", u, None, m,
                                    out, <<>>)
                ELSE /\ data' = [data EXCEPT ![u].terms = terms]
                     /\ accepted' = [accepted EXCEPT ![u].terms = Strip(m.text)]
                     /\ IF data[u].description = NoText \/ data[u].amount = NoFloat
                        THEN \* data['description'] / data['amount'] raise KeyError
                             \* in the summary, before set_state
                             /\ UNCHANGED stage
                             /\ Handled("process_terms", u, None, m,
                                            "exception",
                                            <<"update_data">>)
                        ELSE /\ stage' = [stage EXCEPT ![u] = waiting_for_confirmation]
                             /\ Handled("process_terms", u, None, m,
                                            out,
                                            <<"update_data", "set_state">>)

\* a creation that passes the terms as the description and the description as
\* the terms
NewDealSwapped(ds, deal_id, user_id, d) ==
    create_deal(ds, deal_id, user_id, d.terms, d.amount, d.description)

\* the deal confirm_deal_creation builds from the data dict
NewDeal(ds, deal_id, user_id, d) ==
    create_deal(ds, deal_id, user_id, d.description, d.amount, d.terms)

\* a confirm handler registered without the state filter
confirm_deal_any_stage(u, deal_id) ==
    /\ u \in Users
    /\ UNCHANGED <<users, payments>>
    /\ IF data[u].description = NoText \/ data[u].amount = NoFloat
          \/ data[u].terms = NoText
       THEN \* KeyError while the arguments of create_deal are read
            /\ UNCHANGED deals
            /\ NoSessionChange
            /\ Handled("confirm_deal_creation", u, deal_id, NoMsg,
                           "exception",
                           <<>>)
       ELSE /\ deals' = NewDeal(deals, deal_id, u, data[u])
            /\ Cleared(u)
            /\ Handled("confirm_deal_creation", u, deal_id, NoMsg,
                           "created",
                           <<"create_deal", "clear">>)

\* the confirm_deal button while the state is waiting_for_confirmation;
\* deal_id is the value of str(uuid.uuid4())[:8].upper()
confirm_deal_creation(u, deal_id) ==
    /\ stage[u] = waiting_for_confirmation
    /\ UNCHANGED <<users, payments>>
    /\ IF data[u].description = NoText \/ data[u].amount = NoFloat
          \/ data[u].terms = NoText
       THEN \* KeyError while the arguments of create_deal are read
            /\ UNCHANGED deals
            /\ NoSessionChange
            /\ Handled("confirm_deal_creation", u, deal_id, NoMsg,
                           "exception",
                           <<>>)
       ELSE /\ deals' = NewDeal(deals, deal_id, u, data[u])
            /\ Cleared(u)
            /\ Handled("confirm_deal_creation", u, deal_id, NoMsg,
                           "created",
                           <<"create_deal", "clear">>)

\* the cancel_deal_creation button
cancel_deal_creation(u) ==
    /\ Cleared(u)
    /\ NoStoreChange
    /\ Handled("cancel_deal_creation", u, None, NoMsg,
                   "cancelled", <<"clear">>)

(***************************************************************************)
(* payment.py                                                              *)
(***************************************************************************)
\* update_data(deal_id=..., amount=deal['amount']) then set_state(proof)
EnterProof(u, deal_id, deal) ==
    /\ data' = [data EXCEPT ![u].deal_id = deal_id, ![u].amount = deal.amount]
    /\ stage' = [stage EXCEPT ![u] = waiting_for_payment_proof]
    /\ UNCHANGED accepted

\* the test that lets initiate_payment go on
PayAllowed(deal) == deal.status = "created"

\* the pay_deal_<id> button; qr_ok: the QR photo could be loaded and sent
initiate_payment(u, deal_id, admit, qr_ok) ==
    IF ~admit THEN RateLimited("initiate_payment", u, deal_id)
    ELSE LET deal == get_deal(deal_id) IN
         /\ NoStoreChange
         /\ IF deal = NoDeal
            THEN /\ NoSessionChange
                 /\ Handled("initiate_payment", u, deal_id, NoMsg,
                                "not_found",
                                <<>>)
            ELSE IF ~PayAllowed(deal)
            THEN /\ NoSessionChange
                 /\ Handled("initiate_payment", u, deal_id, NoMsg,
                                "not_available", <<>>)
            ELSE /\ EnterProof(u, deal_id, deal)
                 /\ Handled("initiate_payment", u, deal_id, NoMsg,
                                IF qr_ok THEN "initiated" ELSE "qr_error",
                                <<"update_data", "set_state">>)

\* the regenerate_qr_<id> button: no rate limit and no test of the status
regenerate_qr(u, deal_id, qr_ok) ==
    LET deal == get_deal(deal_id) IN
    /\ NoStoreChange
    /\ IF deal = NoDeal
       THEN /\ NoSessionChange
            /\ Handled("regenerate_qr", u, deal_id, NoMsg,
                           "not_found", <<>>)
       ELSE /\ EnterProof(u, deal_id, deal)
            /\ Handled("regenerate_qr", u, deal_id, NoMsg,
                           IF qr_ok THEN "refreshed" ELSE "qr_error",
                           <<"update_data", "set_state">>)

\* payment_id = str(uuid.uuid4())[:12].upper(): twelve characters
PaymentId == Chars(0, 12, 0)

\* reference_id = message.text.strip()
ReferenceOf(m) == Strip(m.text)

\* a reference test that turns away a reference of exactly the minimum length
ReferenceCheckStrict(reference_id) ==
    IF StrLen(reference_id) <= MinReference THEN "invalid_reference" ELSE "accepted"

\* the length test of the text branch of process_payment_proof
ReferenceCheck(reference_id) ==
    IF StrLen(reference_id) < MinReference THEN "invalid_reference" ELSE "accepted"

\* the record and the status write of an accepted proof, in the order of the code
ProofEffects(u, deal_id, amount, payment_method, reference_id) ==
    /\ payments' = create_payment_record(payments, deal_id, u, amount,
                                         payment_method, reference_id,
                                         "pending_verification")
    /\ deals' = update_deal_status(deals, deal_id, "funded")
    /\ UNCHANGED users

\* a message while the state is waiting_for_payment_proof
process_payment_proof(u, m) ==
    LET deal_id == data[u].deal_id
        amount == data[u].amount
        written == <<"create_payment_record">> \o StatusWrite(deals, deal_id)
        Accept(payment_method, reference_id, out) ==
            /\ Len(payments) < MaxPayments
            /\ ProofEffects(u, deal_id, amount, payment_method, reference_id)
            /\ IF ~CanFormat(amount)
               THEN \* TypeError in the success text, before state.clear()
                    /\ NoSessionChange
                    /\ Handled("process_payment_proof", u, deal_id, m,
                                   "exception", written)
               ELSE /\ Cleared(u)
                    /\ Handled("process_payment_proof", u, deal_id, m,
                                   out,
                                   written \o <<"clear">>)
    IN
    /\ stage[u] = waiting_for_payment_proof
    /\ IF deal_id = None
       THEN /\ Cleared(u)
            /\ NoStoreChange
            /\ Handled("process_payment_proof", u, deal_id, m,
                           "session_expired",
                           <<"clear">>)
       ELSE IF m.kind = "photo"
       THEN Accept("UPI_SCREENSHOT", PaymentId, "received")
       ELSE IF m.text # NoText
       THEN IF ReferenceCheck(ReferenceOf(m)) # "accepted"
            THEN /\ NoSessionChange
                 /\ NoStoreChange
                 /\ Handled("process_payment_proof", u, deal_id, m,
                                "invalid_reference", <<>>)
            ELSE Accept("UPI_REFERENCE", ReferenceOf(m), "verified")
       ELSE /\ NoSessionChange
            /\ NoStoreChange
            /\ Handled("process_payment_proof", u, deal_id, m,
                           "no_proof", <<>>)

\* a release test that also lets an unfunded deal through
ReleaseAllowedUnfunded(deal) == deal.status \in {"created", "funded"}

\* the test that lets release_payment go on
ReleaseAllowed(deal) == deal.status = "funded"

\* the release_payment_<id> button
release_payment(u, deal_id) ==
    LET deal == get_deal(deal_id) IN
    /\ NoSessionChange
    /\ UNCHANGED <<users, payments>>
    /\ IF deal = NoDeal
       THEN /\ UNCHANGED deals
            /\ Handled("release_payment", u, deal_id, NoMsg,
                           "not_found", <<>>)
       ELSE IF ~ReleaseAllowed(deal)
       THEN /\ UNCHANGED deals
            /\ Handled("release_payment", u, deal_id, NoMsg,
                           "not_ready", <<>>)
       ELSE /\ deals' = update_deal_status(deals, deal_id, "completed")
            /\ Handled("release_payment", u, deal_id, NoMsg,
                           "released",
                           StatusWrite(deals, deal_id))

\* the dispute_deal_<id> button: only the existence of the deal is tested
create_dispute(u, deal_id) ==
    LET deal == get_deal(deal_id) IN
    /\ NoSessionChange
    /\ UNCHANGED <<users, payments>>
    /\ IF deal = NoDeal
       THEN /\ UNCHANGED deals
            /\ Handled("create_dispute", u, deal_id, NoMsg,
                           "not_found", <<>>)
       ELSE /\ deals' = update_deal_status(deals, deal_id, "disputed")
            /\ Handled("create_dispute", u, deal_id, NoMsg,
                           "dispute_created",
                           StatusWrite(deals, deal_id))

(***************************************************************************)
(* admin.py                                                                *)
(***************************************************************************)
\* a gate that lets every account through
AdminGateOpen(u) == u \in Users

\* `if not await is_admin(...)`: the gate at the head of every admin handler
AdminGate(u) == is_admin(u)

\* a request the gate turns away
Denied(op, u, d) ==
    /\ NoSessionChange
    /\ NoStoreChange
    /\ Handled(op, u, d, NoMsg, "denied", <<>>)

\* a request that only renders a view
Shown(op, u, d, out) ==
    /\ NoSessionChange
    /\ NoStoreChange
    /\ Handled(op, u, d, NoMsg, out, <<>>)

\* the /admin command
admin_panel(u) ==
    IF ~AdminGate(u) THEN Denied("admin_panel", u, None)
    ELSE Shown("admin_panel", u, None, "panel")

\* the admin_all_deals button
show_all_deals(u) ==
    IF ~AdminGate(u) THEN Denied("show_all_deals", u, None)
    ELSE Shown("show_all_deals", u, None,
               IF \A d \in DealIds : deals[d] = NoDeal THEN "no_deals" ELSE "deals")

\* the admin_disputes button
show_disputes(u) ==
    IF ~AdminGate(u) THEN Denied("show_disputes", u, None)
    ELSE Shown("show_disputes", u, None,
               IF \A d \in DealIds : deals[d].status # "disputed"
               THEN "no_disputes" ELSE "disputes")

\* the admin_deal_<id> button
admin_deal_details(u, deal_id) ==
    IF ~AdminGate(u) THEN Denied("admin_deal_details", u, deal_id)
    ELSE Shown("admin_deal_details", u, deal_id,
               IF get_deal(deal_id) = NoDeal THEN "not_found" ELSE "details")

\* the admin_resolve_<id> button: the status is written without reading the deal
admin_resolve_dispute(u, deal_id) ==
    IF ~AdminGate(u) THEN Denied("admin_resolve_dispute", u, deal_id)
    ELSE /\ NoSessionChange
         /\ UNCHANGED <<users, payments>>
         /\ deals' = update_deal_status(deals, deal_id, "completed")
         /\ Handled("admin_resolve_dispute", u, deal_id, NoMsg,
                        "resolved",
                        StatusWrite(deals, deal_id))

\* the admin_cancel_<id> button: the status is written without reading the deal
admin_cancel_deal(u, deal_id) ==
    IF ~AdminGate(u) THEN Denied("admin_cancel_deal", u, deal_id)
    ELSE /\ NoSessionChange
         /\ UNCHANGED <<users, payments>>
         /\ deals' = update_deal_status(deals, deal_id, "cancelled")
         /\ Handled("admin_cancel_deal", u, deal_id, NoMsg,
                        "deal_cancelled",
                        StatusWrite(deals, deal_id))

(***************************************************************************)
(* Updates no handler takes: the confirm_deal button outside               *)
(* waiting_for_confirmation, and a message while the state is None or      *)
(* waiting_for_confirmation.  The dispatcher drops them.                   *)
(***************************************************************************)
unhandled_confirm(u) ==
    /\ stage[u] # waiting_for_confirmation
    /\ NoSessionChange
    /\ NoStoreChange
    /\ Handled("confirm_deal", u, None, NoMsg, "unhandled", <<>>)

unhandled_message(u, m) ==
    /\ stage[u] \in {Idle, waiting_for_confirmation}
    /\ NoSessionChange
    /\ NoStoreChange
    /\ Handled("message", u, None, m, "unhandled", <<>>)

(***************************************************************************)
(* The authoring flow: from the empty store, every request that reads or   *)
(* writes a session, each handled to its end before the next one is taken. *)
(***************************************************************************)
\* the flow is followed by the account that is not the operator
Authors == Users \ Admins

\* what authors send
AuthoringMessages ==
    { TextMsg(Chars(0, 20, 0)),                  \* fits every text field
      TextMsg(Chars(1, 10, 0)),                  \* a description once stripped
      TextMsg(Dec(FALSE, 100, FALSE, 0, 0)),     \* "100"
      TextMsg(Dec(FALSE, 500000, FALSE, 0, 1)),  \* "500,000"
      TextMsg(Word("nan", FALSE)),               \* "nan"
      PhotoMsg }

NextAuthoring ==
    \/ \E u \in Authors, admit \in BOOLEAN : start_handler(u, admit)
    \/ \E u \in Authors : show_main_menu(u)
    \/ \E u \in Authors, admit \in BOOLEAN : start_deal_creation(u, admit)
    \/ \E u \in Authors, m \in AuthoringMessages : process_description(u, m)
    \/ \E u \in Authors, m \in AuthoringMessages : process_amount(u, m)
    \/ \E u \in Authors, m \in AuthoringMessages : process_terms(u, m)
    \/ \E u \in Authors, d \in DealIds : confirm_deal_creation(u, d)
    \/ \E u \in Authors : cancel_deal_creation(u)
    \/ \E u \in Authors, d \in DealIds, admit \in BOOLEAN, qr_ok \in BOOLEAN :
          initiate_payment(u, d, admit, qr_ok)
    \/ \E u \in Authors, d \in DealIds, qr_ok \in BOOLEAN : regenerate_qr(u, d, qr_ok)
    \/ \E u \in Authors : unhandled_confirm(u)
    \/ \E u \in Authors, m \in AuthoringMessages : unhandled_message(u, m)

SpecAuthoring == Init /\ [][NextAuthoring]_vars

(***************************************************************************)
(* Input validation: one author, the three input stages, and messages at   *)
(* and around every limit of the handlers.                                 *)
(***************************************************************************)
\* core lengths at and next to the limits
LimitLengths ==
    { 0, MinDescription - 1, MinDescription, MinTerms - 1, MinTerms,
      MaxDescription, MaxDescription + 1, MaxTerms, MaxTerms + 1 }

InputTexts ==
    { Chars(0, n, 0) : n \in LimitLengths }
    \cup { Chars(1, MinDescription - 1, 0),     \* ten characters, nine stripped
           Chars(0, MaxDescription, 1),         \* 501 characters, 500 stripped
           Chars(1, MinTerms - 1, 0),           \* twenty characters, 19 stripped
           Chars(0, MaxTerms, 1) }              \* 1001 characters, 1000 stripped

InputNumerals ==
    { Dec(FALSE, MinAmount - 1, TRUE, 99, 0),   \* "99.99"
      Dec(FALSE, MinAmount, FALSE, 0, 0),       \* "100"
      Dec(FALSE, 15000, FALSE, 0, 0),           \* "15000"
      Dec(FALSE, MaxAmount, FALSE, 0, 1),       \* "500,000"
      Dec(FALSE, MaxAmount, TRUE, 1, 0),        \* "500000.01"
      Dec(TRUE, MinAmount, FALSE, 0, 0),        \* "-100"
      Padded(Dec(FALSE, MinAmount, TRUE, 0, 0), 1, 1),  \* " 100.00 "
      Word("nan", FALSE),                       \* "nan"
      Word("inf", FALSE),                       \* "inf"
      Word("inf", TRUE) }                       \* "-inf"

InputMessages ==
    {TextMsg(t) : t \in InputTexts \cup InputNumerals} \cup {PhotoMsg}

NextInput ==
    \/ \E u \in Authors : start_deal_creation(u, TRUE)
    \/ \E u \in Authors, m \in InputMessages : process_description(u, m)
    \/ \E u \in Authors, m \in InputMessages : process_amount(u, m)
    \/ \E u \in Authors, m \in InputMessages : process_terms(u, m)
    \/ \E u \in Authors : cancel_deal_creation(u)

SpecInput == Init /\ [][NextInput]_vars

(***************************************************************************)
(* Both flows of one account: authoring, payment and proof, with one       *)
(* message of every kind the four input stages tell apart.                 *)
(***************************************************************************)
FlowMessages ==
    { TextMsg(Chars(0, MinTerms, 0)),              \* twenty characters
      TextMsg(Chars(0, MaxTerms + 1, 0)),          \* 1001 characters
      TextMsg(Dec(FALSE, MinAmount, FALSE, 0, 0)), \* "100"
      TextMsg(Dec(FALSE, MaxAmount, FALSE, 0, 1)), \* "500,000"
      TextMsg(Dec(FALSE, MinAmount - 1, TRUE, 99, 0)),  \* "99.99"
      TextMsg(Dec(FALSE, MaxAmount, TRUE, 1, 0)),  \* "500000.01"
      PhotoMsg }

\* what is sent as proof: an image, a reference of twenty characters, one of
\* three characters, and a message with neither image nor text
FlowProofs ==
    { PhotoMsg, OtherMsg,
      TextMsg(Chars(0, MinTerms, 0)),
      TextMsg(Dec(FALSE, MinAmount, FALSE, 0, 0)) }

\* the deal whose payment is followed
FlowPaid == {"D1"}

NextFlows ==
    \/ \E u \in Authors, admit \in BOOLEAN : start_handler(u, admit)
    \/ \E u \in Authors : show_main_menu(u)
    \/ \E u \in Authors, admit \in BOOLEAN : start_deal_creation(u, admit)
    \/ \E u \in Authors, m \in FlowMessages : process_description(u, m)
    \/ \E u \in Authors, m \in FlowMessages : process_amount(u, m)
    \/ \E u \in Authors, m \in FlowMessages : process_terms(u, m)
    \/ \E u \in Authors, d \in DealIds : confirm_deal_creation(u, d)
    \/ \E u \in Authors : cancel_deal_creation(u)
    \/ \E u \in Authors, d \in FlowPaid, admit \in BOOLEAN :
          initiate_payment(u, d, admit, TRUE)
    \/ \E u \in Authors, d \in FlowPaid : regenerate_qr(u, d, TRUE)
    \/ \E u \in Authors, m \in FlowProofs : process_payment_proof(u, m)
    \/ \E u \in Authors : unhandled_confirm(u)

SpecFlows == Init /\ [][NextFlows]_vars

(***************************************************************************)
(* Handlers taken await by await.  A call that has passed its filter and   *)
(* its first read is kept in a slot; each later step is one awaited call   *)
(* of the store or of the session storage.  `seen` in the history is the   *)
(* status the call had read, `before` the status when it returned.         *)
(***************************************************************************)
\* the call in slot s returns
Returned(s, out, eff) ==
    LET t == inflight[s] IN
    /\ last' = [Req(t.op, t.user, t.deal, t.msg, out, eff)
                   EXCEPT !.seen = t.seen.status]
    /\ inflight' = [inflight EXCEPT ![s] = NoTask]

\* the call in slot s goes on to its next await
Goes(s, pc) == inflight' = [inflight EXCEPT ![s].pc = pc]

\* the call in slot s is at the await named pc of handler op
At(s, op, pc) == inflight[s].op = op /\ inflight[s].pc = pc

\* a new call of user u takes slot s
Starts(s, u) == Free(u) /\ FreeSlot(s)

\* confirm_deal_creation up to `data = await state.get_data()` and uuid4()
confirm_read(u, deal_id, s) ==
    /\ Starts(s, u)
    /\ stage[u] = waiting_for_confirmation
    /\ data[u].description # NoText /\ data[u].amount # NoFloat
    /\ data[u].terms # NoText
    /\ inflight' = [inflight EXCEPT ![s] =
                       Task("confirm_deal_creation", u, deal_id, NoMsg,
                            "create_deal", NoDeal)]
    /\ NoSessionChange
    /\ NoStoreChange
    /\ UNCHANGED last

\* await create_deal(...)
confirm_create(s) ==
    LET t == inflight[s] IN
    /\ At(s, "confirm_deal_creation", "create_deal")
    /\ deals' = NewDeal(deals, t.deal, t.user, t.data)
    /\ accepted' = [accepted EXCEPT ![t.user].made = @ + 1]
    /\ Goes(s, "clear")
    /\ UNCHANGED <<users, payments, stage, data, last>>

\* await state.clear()
confirm_clear(s) ==
    /\ At(s, "confirm_deal_creation", "clear")
    /\ Cleared(inflight[s].user)
    /\ NoStoreChange
    /\ Returned(s, "created", <<"create_deal", "clear">>)

\* process_description up to the length tests, for a text that passes them
description_read(u, m, s) ==
    /\ Starts(s, u)
    /\ stage[u] = waiting_for_description
    /\ m.text # NoText
    /\ DescriptionCheck(DescriptionOf(m)) = "accepted"
    /\ inflight' = [inflight EXCEPT ![s] =
                       Task("process_description", u, None, m, "update_data",
                            NoDeal)]
    /\ NoSessionChange
    /\ NoStoreChange
    /\ UNCHANGED last

\* await state.update_data(description=description)
description_update(s) ==
    LET t == inflight[s]
        u == t.user
    IN  /\ At(s, "process_description", "update_data")
        /\ data' = [data EXCEPT ![u].description = DescriptionOf(t.msg)]
        /\ accepted' = [accepted EXCEPT ![u].description = Strip(t.msg.text)]
        /\ inflight' = [inflight EXCEPT ![s].pc = "set_state",
                                        ![s].data.description = DescriptionOf(t.msg)]
        /\ NoStoreChange
        /\ UNCHANGED <<stage, last>>

\* await state.set_state(DealStates.waiting_for_amount)
description_advance(s) ==
    /\ At(s, "process_description", "set_state")
    /\ stage' = [stage EXCEPT ![inflight[s].user] = waiting_for_amount]
    /\ UNCHANGED <<data, accepted>>
    /\ NoStoreChange
    /\ Returned(s, "accepted", <<"update_data", "set_state">>)

\* process_payment_proof up to `if message.photo`, for an image
proof_read(u, m, s) ==
    /\ Starts(s, u)
    /\ stage[u] = waiting_for_payment_proof
    /\ data[u].deal_id # None
    /\ m.kind = "photo"
    /\ Len(payments) < MaxPayments
    /\ inflight' = [inflight EXCEPT ![s] =
                       Task("process_payment_proof", u, data[u].deal_id, m,
                            "create_payment_record", NoDeal)]
    /\ NoSessionChange
    /\ NoStoreChange
    /\ UNCHANGED last

\* await create_payment_record(...)
proof_record(s) ==
    LET t == inflight[s] IN
    /\ At(s, "process_payment_proof", "create_payment_record")
    /\ Len(payments) < MaxPayments
    /\ payments' = create_payment_record(payments, t.deal, t.user, t.data.amount,
                                         "UPI_SCREENSHOT", PaymentId,
                                         "pending_verification")
    /\ Goes(s, "update_deal_status")
    /\ NoSessionChange
    /\ UNCHANGED <<users, deals, last>>

\* a failure of create_payment_record that is swallowed: the call goes on
proof_record_swallowed(s) ==
    /\ At(s, "process_payment_proof", "create_payment_record")
    /\ Goes(s, "update_deal_status")
    /\ NoSessionChange
    /\ NoStoreChange
    /\ UNCHANGED last

\* await create_payment_record(...) raises: the exception leaves the handler,
\* nothing after the call runs
proof_record_fails(s) ==
    /\ At(s, "process_payment_proof", "create_payment_record")
    /\ NoSessionChange
    /\ NoStoreChange
    /\ Returned(s, "exception", <<>>)

\* await update_deal_status(deal_id, 'funded')
proof_status(s) ==
    /\ At(s, "process_payment_proof", "update_deal_status")
    /\ deals' = update_deal_status(deals, inflight[s].deal, "funded")
    /\ Goes(s, "clear")
    /\ NoSessionChange
    /\ UNCHANGED <<users, payments, last>>

\* a proof handler that returns without clearing the session
proof_without_clear(s) ==
    /\ At(s, "process_payment_proof", "clear")
    /\ NoSessionChange
    /\ NoStoreChange
    /\ Returned(s, "received", <<"create_payment_record", "update_deal_status">>)

\* await state.clear()
proof_clear(s) ==
    /\ At(s, "process_payment_proof", "clear")
    /\ Cleared(inflight[s].user)
    /\ NoStoreChange
    /\ Returned(s, "received",
                <<"create_payment_record", "update_deal_status", "clear">>)

\* the two handlers that open the payment flow
PayOps == {"initiate_payment", "regenerate_qr"}

\* initiate_payment up to the tests of what get_deal returned
pay_read(u, deal_id, s) ==
    LET deal == get_deal(deal_id) IN
    /\ Starts(s, u)
    /\ NoSessionChange
    /\ NoStoreChange
    /\ IF deal = NoDeal
       THEN Handled("initiate_payment", u, deal_id, NoMsg, "not_found", <<>>)
       ELSE IF ~PayAllowed(deal)
       THEN Handled("initiate_payment", u, deal_id, NoMsg, "not_available", <<>>)
       ELSE /\ inflight' = [inflight EXCEPT ![s] =
                               Task("initiate_payment", u, deal_id, NoMsg,
                                    "update_data", deal)]
            /\ UNCHANGED last

\* regenerate_qr up to the test of what get_deal returned
regen_read(u, deal_id, s) ==
    LET deal == get_deal(deal_id) IN
    /\ Starts(s, u)
    /\ NoSessionChange
    /\ NoStoreChange
    /\ IF deal = NoDeal
       THEN Handled("regenerate_qr", u, deal_id, NoMsg, "not_found", <<>>)
       ELSE /\ inflight' = [inflight EXCEPT ![s] =
                               Task("regenerate_qr", u, deal_id, NoMsg,
                                    "update_data", deal)]
            /\ UNCHANGED last

\* await state.update_data(deal_id=deal_id, amount=deal['amount'])
pay_update(s) ==
    LET t == inflight[s] IN
    /\ t.op \in PayOps /\ t.pc = "update_data"
    /\ data' = [data EXCEPT ![t.user].deal_id = t.deal,
                            ![t.user].amount = t.seen.amount]
    /\ Goes(s, "set_state")
    /\ NoStoreChange
    /\ UNCHANGED <<stage, accepted, last>>

\* await state.set_state(PaymentStates.waiting_for_payment_proof)
pay_advance(s) ==
    LET t == inflight[s] IN
    /\ t.op \in PayOps /\ t.pc = "set_state"
    /\ stage' = [stage EXCEPT ![t.user] = waiting_for_payment_proof]
    /\ Goes(s, "answer_photo")
    /\ NoStoreChange
    /\ UNCHANGED <<data, accepted, last>>

\* await callback.message.answer_photo(...); qr_ok: the photo was sent
pay_send(s, qr_ok) ==
    LET t == inflight[s] IN
    /\ t.op \in PayOps /\ t.pc = "answer_photo"
    /\ NoSessionChange
    /\ NoStoreChange
    /\ Returned(s,
                IF ~qr_ok THEN "qr_error"
                ELSE IF t.op = "initiate_payment" THEN "initiated" ELSE "refreshed",
                <<"update_data", "set_state">>)

\* a status write that takes effect only if the status is still the one read
WriteIfUnchanged(ds, t, status) ==
    IF ds[t.deal].status = t.seen.status
    THEN update_deal_status(ds, t.deal, status)
    ELSE ds

\* await update_deal_status(deal_id, status) of the call t
WriteStatus(ds, t, status) == update_deal_status(ds, t.deal, status)

\* release_payment up to the tests of what get_deal returned
release_read(u, deal_id, s) ==
    LET deal == get_deal(deal_id) IN
    /\ Starts(s, u)
    /\ NoSessionChange
    /\ NoStoreChange
    /\ IF deal = NoDeal
       THEN Handled("release_payment", u, deal_id, NoMsg, "not_found", <<>>)
       ELSE IF ~ReleaseAllowed(deal)
       THEN Handled("release_payment", u, deal_id, NoMsg, "not_ready", <<>>)
       ELSE /\ inflight' = [inflight EXCEPT ![s] =
                               Task("release_payment", u, deal_id, NoMsg,
                                    "update_deal_status", deal)]
            /\ UNCHANGED last

\* await update_deal_status(deal_id, 'completed')
release_write(s) ==
    /\ At(s, "release_payment", "update_deal_status")
    /\ deals' = WriteStatus(deals, inflight[s], "completed")
    /\ NoSessionChange
    /\ UNCHANGED <<users, payments>>
    /\ Returned(s, "released", <<"update_deal_status">>)

\* create_dispute up to the test of what get_deal returned
dispute_read(u, deal_id, s) ==
    LET deal == get_deal(deal_id) IN
    /\ Starts(s, u)
    /\ NoSessionChange
    /\ NoStoreChange
    /\ IF deal = NoDeal
       THEN Handled("create_dispute", u, deal_id, NoMsg, "not_found", <<>>)
       ELSE /\ inflight' = [inflight EXCEPT ![s] =
                               Task("create_dispute", u, deal_id, NoMsg,
                                    "update_deal_status", deal)]
            /\ UNCHANGED last

\* await update_deal_status(deal_id, 'disputed')
dispute_write(s) ==
    /\ At(s, "create_dispute", "update_deal_status")
    /\ deals' = WriteStatus(deals, inflight[s], "disputed")
    /\ NoSessionChange
    /\ UNCHANGED <<users, payments>>
    /\ Returned(s, "dispute_created", <<"update_deal_status">>)

(***************************************************************************)
(* Calls in flight: the author goes through authoring, payment and proof   *)
(* with one valid input per stage; both accounts release and dispute.      *)
(***************************************************************************)
TurnDescription == TextMsg(Chars(0, MinTerms, 0))
TurnAmount == TextMsg(Dec(FALSE, MinAmount, FALSE, 0, 0))
TurnTerms == TextMsg(Chars(0, MinTerms, 0))

NextTurns ==
    \/ \E u \in Authors : Free(u) /\ start_deal_creation(u, TRUE)
    \/ \E u \in Authors, s \in Slots : description_read(u, TurnDescription, s)
    \/ \E s \in Slots : description_update(s)
    \/ \E s \in Slots : description_advance(s)
    \/ \E u \in Authors : Free(u) /\ process_amount(u, TurnAmount)
    \/ \E u \in Authors : Free(u) /\ process_terms(u, TurnTerms)
    \/ \E u \in Authors, d \in DealIds, s \in Slots : confirm_read(u, d, s)
    \/ \E s \in Slots : confirm_create(s)
    \/ \E s \in Slots : confirm_clear(s)
    \/ \E u \in Authors : Free(u) /\ unhandled_confirm(u)
    \/ \E u \in Authors, d \in FlowPaid : Free(u) /\ initiate_payment(u, d, TRUE, TRUE)
    \/ \E u \in Authors, s \in Slots : proof_read(u, PhotoMsg, s)
    \/ \E s \in Slots : proof_record(s)
    \/ \E s \in Slots : proof_status(s)
    \/ \E s \in Slots : proof_clear(s)
    \/ \E u \in Users, d \in FlowPaid, s \in Slots : release_read(u, d, s)
    \/ \E s \in Slots : release_write(s)
    \/ \E u \in Users, d \in FlowPaid, s \in Slots : dispute_read(u, d, s)
    \/ \E s \in Slots : dispute_write(s)

SpecTurns == Init /\ [][NextTurns]_vars

(***************************************************************************)
(* The deal lifecycle: the store as the authoring flow leaves it (each id  *)
(* absent or a deal in status created), then every request that reads or  *)
(* writes a deal's status, each handled to its end before the next one is  *)
(* taken.  Both accounts press the deal and admin buttons; the payment     *)
(* flow is followed by the account that is not the operator.               *)
(***************************************************************************)
Payers == Users \ Admins

EmptyStore == [d \in DealIds |-> NoDeal]

\* stores the authoring flow can leave: D1 authored by usr, D2 by op, or not
AuthoredStores ==
    { [d \in DealIds |->
          IF d \in ids
          THEN create_deal(EmptyStore, d, IF d = "D1" THEN "usr" ELSE "op",
                           Chars(0, 20, 0), Fin(MinAmount * 100),
                           Chars(0, 20, 0))[d]
          ELSE NoDeal] : ids \in SUBSET DealIds }

InitDeals ==
    /\ users = {}
    /\ deals \in AuthoredStores
    /\ payments = <<>>
    /\ stage = [u \in Users |-> Idle]
    /\ data = [u \in Users |-> EmptyData]
    /\ accepted = [u \in Users |-> NoneAccepted]
    /\ inflight = [s \in Slots |-> NoTask]
    /\ last = NoReq

\* what users send while a proof is awaited
ProofMessages ==
    { PhotoMsg, OtherMsg,
      TextMsg(Chars(0, MinReference, 0)),       \* eight characters
      TextMsg(Chars(0, MinReference - 1, 1)) }  \* eight, seven after strip()

NextDeals ==
    \/ \E u \in Payers, d \in DealIds, admit \in BOOLEAN, qr_ok \in BOOLEAN :
          initiate_payment(u, d, admit, qr_ok)
    \/ \E u \in Payers, d \in DealIds, qr_ok \in BOOLEAN : regenerate_qr(u, d, qr_ok)
    \/ \E u \in Payers, m \in ProofMessages : process_payment_proof(u, m)
    \/ \E u \in Users, d \in DealIds : release_payment(u, d)
    \/ \E u \in Users, d \in DealIds : create_dispute(u, d)
    \/ \E u \in Users : admin_panel(u)
    \/ \E u \in Users : show_all_deals(u)
    \/ \E u \in Users : show_disputes(u)
    \/ \E u \in Users, d \in DealIds : admin_deal_details(u, d)
    \/ \E u \in Users, d \in DealIds : admin_resolve_dispute(u, d)
    \/ \E u \in Users, d \in DealIds : admin_cancel_deal(u, d)

SpecDeals == InitDeals /\ [][NextDeals]_vars

(***************************************************************************)
(* The payment flow taken await by await over an authored store: the payer *)
(* opens it, leaves it by start, main menu and cancel, and sends proofs;   *)
(* the store may fail to create the payment record.                        *)
(***************************************************************************)
\* a reference of seven characters
ShortReference == TextMsg(Chars(0, MinReference - 1, 0))

NextPayTurns ==
    \/ \E u \in Payers, d \in FlowPaid, s \in Slots : pay_read(u, d, s)
    \/ \E u \in Payers, d \in FlowPaid, s \in Slots : regen_read(u, d, s)
    \/ \E s \in Slots : pay_update(s)
    \/ \E s \in Slots : pay_advance(s)
    \/ \E s \in Slots, qr_ok \in BOOLEAN : pay_send(s, qr_ok)
    \/ \E u \in Payers : Free(u) /\ start_handler(u, TRUE)
    \/ \E u \in Payers : Free(u) /\ show_main_menu(u)
    \/ \E u \in Payers : Free(u) /\ cancel_deal_creation(u)
    \/ \E u \in Payers, s \in Slots : proof_read(u, PhotoMsg, s)
    \/ \E s \in Slots : proof_record(s)
    \/ \E s \in Slots : proof_record_fails(s)
    \/ \E s \in Slots : proof_status(s)
    \/ \E s \in Slots : proof_clear(s)
    \/ \E u \in Payers : Free(u) /\ process_payment_proof(u, ShortReference)
    \/ \E u \in Admins, d \in FlowPaid : Free(u) /\ admin_cancel_deal(u, d)

SpecPayTurns == InitDeals /\ [][NextPayTurns]_vars

(***************************************************************************)
(* Progress.  The event loop runs every call that is ready, so a call in   *)
(* flight takes its next step (weak fairness of Continue).  The author is  *)
(* one who keeps answering: at a stage he is at again and again he sends a *)
(* valid input (strong fairness of his five valid turns); he may send any  *)
(* number of invalid inputs and restart the flow in between, and the       *)
(* operator may dispute and cancel the deal.                               *)
(***************************************************************************)
\* the next awaited call of the call in slot s returns
Continue(s) ==
    \/ description_update(s)
    \/ description_advance(s)
    \/ confirm_create(s)
    \/ confirm_clear(s)
    \/ proof_record(s)
    \/ proof_status(s)
    \/ proof_clear(s)

\* inputs the three authoring stages turn away
InvalidTurns ==
    { TextMsg(Chars(0, MinDescription - 1, 0)),            \* nine characters
      TextMsg(Dec(FALSE, MinAmount - 1, TRUE, 99, 0)) }    \* "99.99"

\* the valid turns of author u
SendsDescription(u) == \E s \in Slots : description_read(u, TurnDescription, s)
SendsAmount(u) == Free(u) /\ process_amount(u, TurnAmount)
SendsTerms(u) == Free(u) /\ process_terms(u, TurnTerms)
SendsConfirm(u) == \E d \in DealIds, s \in Slots : confirm_read(u, d, s)
ValidReference == TextMsg(Chars(0, MinReference, 0))
SendsProof(u) == (\E s \in Slots : proof_read(u, PhotoMsg, s)) \/ (Free(u) /\ process_payment_proof(u, ValidReference))

NextProgress ==
    \/ \E u \in Authors : Free(u) /\ start_deal_creation(u, TRUE)
    \/ \E u \in Authors : SendsDescription(u)
    \/ \E u \in Authors : SendsAmount(u)
    \/ \E u \in Authors : SendsTerms(u)
    \/ \E u \in Authors : SendsConfirm(u)
    \/ \E u \in Authors : SendsProof(u)
    \/ \E s \in Slots : Continue(s)
    \/ \E u \in Authors, m \in InvalidTurns : Free(u) /\ process_description(u, m)
    \/ \E u \in Authors, m \in InvalidTurns : Free(u) /\ process_amount(u, m)
    \/ \E u \in Authors, m \in InvalidTurns : Free(u) /\ process_terms(u, m)
    \/ \E u \in Authors : Free(u) /\ process_payment_proof(u, ShortReference)
    \/ \E u \in Authors, d \in FlowPaid :
          /\ Free(u)
          /\ Len(payments) < MaxPayments
          /\ initiate_payment(u, d, TRUE, TRUE)
    \/ \E u \in Admins, d \in FlowPaid : Free(u) /\ create_dispute(u, d)
    \/ \E u \in Admins, d \in FlowPaid : Free(u) /\ admin_cancel_deal(u, d)

FairProgress ==
    /\ Init /\ [][NextProgress]_vars
    /\ \A s \in Slots : WF_vars(Continue(s))
    /\ \A u \in Authors :
          /\ SF_vars(SendsDescription(u))
          /\ SF_vars(SendsAmount(u))
          /\ SF_vars(SendsTerms(u))
          /\ SF_vars(SendsConfirm(u))
          /\ SF_vars(SendsProof(u))

(***************************************************************************)
(* Sessions side by side: both accounts open the authoring and the payment *)
(* flow over an authored store while deals are disputed and cancelled.     *)
(***************************************************************************)
NextSessions ==
    \/ \E u \in Users : start_deal_creation(u, TRUE)
    \/ \E u \in Users : process_description(u, TurnDescription)
    \/ \E u \in Users : cancel_deal_creation(u)
    \/ \E u \in Users, d \in FlowPaid : initiate_payment(u, d, TRUE, TRUE)
    \/ \E u \in Users : process_payment_proof(u, PhotoMsg)
    \/ \E u \in Users, d \in FlowPaid : create_dispute(u, d)
    \/ \E u \in Users, d \in FlowPaid : admin_cancel_deal(u, d)

SpecSessions == InitDeals /\ [][NextSessions]_vars

(***************************************************************************)
(* Properties of the deal lifecycle.                                       *)
(***************************************************************************)
Exists(d) == deals[d] # NoDeal

\* the transition table: <<status before, request, status after>>
TransitionTable ==
    { <<"created", "process_payment_proof", "funded">>,
      <<"funded", "release_payment", "completed">>,
      <<"created", "create_dispute", "disputed">>,
      <<"funded", "create_dispute", "disputed">>,
      <<"disputed", "admin_resolve_dispute", "completed">>,
      <<"disputed", "admin_cancel_deal", "cancelled">>,
      <<"created", "admin_cancel_deal", "cancelled">> }

\* the requests that write a status
LifecycleOps ==
    {"process_payment_proof", "release_payment", "create_dispute",
     "admin_resolve_dispute", "admin_cancel_deal"}

\* the request handled by the step wrote the status column of a deal
WroteStatus == \E i \in 1..Len(last'.eff) : last'.eff[i] = "update_deal_status"

\* C1: every change of a deal's status made by proof submission, release,
\* dispute, operator-resolve or operator-cancel is an edge of the transition
\* table for that request; any other (status, request) pair leaves the status
\* as it was.
C1_OnlyTableTransitions ==
    [][\A d \in DealIds :
          (last'.op \in LifecycleOps /\ deals'[d].status # deals[d].status)
          => <<deals[d].status, last'.op, deals'[d].status>> \in TransitionTable]_vars

\* C2: a deal whose status is completed or cancelled keeps that status through
\* every later dispute, proof, release, operator-resolve and operator-cancel.
C2_TerminalIsFinal ==
    [][\A d \in DealIds :
          (last'.op \in LifecycleOps /\ deals[d].status \in {"completed", "cancelled"})
          => deals'[d].status = deals[d].status]_vars

\* C3: a proof submission writes funded only to a deal that exists and whose
\* status is created when the proof is accepted.
C3_FundedOnlyFromCreated ==
    [][\A d \in DealIds :
          (last'.op = "process_payment_proof" /\ last'.deal = d /\ WroteStatus)
          => (Exists(d) /\ deals[d].status = "created")]_vars

\* C4: operator-resolve writes completed only to an existing disputed deal and
\* operator-cancel writes cancelled only to an existing disputed or created
\* deal; for an absent deal or any other status the operator gets an error
\* outcome, not the success outcome, and no status is written.
C4_OperatorWritesGuarded ==
    [][\A d \in DealIds :
          /\ (/\ last'.op = "admin_resolve_dispute"
              /\ last'.user \in Admins
              /\ last'.deal = d
              /\ ~(Exists(d) /\ deals[d].status = "disputed"))
             => (last'.out # "resolved" /\ ~WroteStatus /\ deals' = deals)
          /\ (/\ last'.op = "admin_cancel_deal"
              /\ last'.user \in Admins
              /\ last'.deal = d
              /\ ~(Exists(d) /\ deals[d].status \in {"disputed", "created"}))
             => (last'.out # "deal_cancelled" /\ ~WroteStatus /\ deals' = deals)]_vars

\* the operator-gated requests
GatedOps ==
    {"admin_panel", "show_all_deals", "show_disputes", "admin_deal_details",
     "admin_resolve_dispute", "admin_cancel_deal"}

\* C5: a gated request of an account that is not an operator is answered
\* "denied" and changes no deal, no payment record, no user and no session; an
\* operator's resolve moves a disputed deal to completed.
C5_GateKeepsNonOperatorsOut ==
    [][/\ (last'.op \in GatedOps /\ last'.user \notin Admins)
          => (last'.out = "denied"
              /\ UNCHANGED <<users, deals, payments, stage, data>>)
       /\ \A d \in DealIds :
             (/\ last'.op = "admin_resolve_dispute"
              /\ last'.user \in Admins
              /\ last'.deal = d
              /\ deals[d].status = "disputed")
             => deals'[d].status = "completed"]_vars

\* C5 witness: a non-operator's resolve of a disputed deal was denied, the
\* deal is still disputed and the caller is in the middle of a payment
C5_Witness ==
    /\ last.op = "admin_resolve_dispute"
    /\ last.user \notin Admins
    /\ last.out = "denied"
    /\ last.before = "disputed"
    /\ deals[last.deal].status = "disputed"
    /\ stage[last.user] = waiting_for_payment_proof

\* C6: release on an absent deal or on a deal that is not funded is rejected
\* and writes nothing; on a funded deal it makes exactly one status write, to
\* completed.
C6_ReleaseOnlyFunded ==
    [][\A d \in DealIds :
          (last'.op = "release_payment" /\ last'.deal = d)
          => IF Exists(d) /\ deals[d].status = "funded"
             THEN /\ deals' = [deals EXCEPT ![d].status = "completed"]
                  /\ last'.out = "released"
                  /\ last'.eff = <<"update_deal_status">>
             ELSE /\ deals' = deals
                  /\ last'.out \in {"not_found", "not_ready"}
                  /\ last'.eff = <<>>]_vars

\* C6 witness: release of a deal that was never funded was rejected and the
\* deal is still in status created
C6_Witness ==
    /\ last.op = "release_payment"
    /\ last.out = "not_ready"
    /\ last.before = "created"
    /\ deals[last.deal].status = "created"

\* what the claim calls a proof: an image, or a text of at least 8 characters
IsProofAsClaimed(m) ==
    m.kind = "photo" \/ (m.kind = "text" /\ StrLen(m.text) >= MinReference)

\* an image, or a text of at least 8 characters once blanks at its ends are cut
IsProof(m) ==
    m.kind = "photo" \/ (m.kind = "text" /\ StrLen(Strip(m.text)) >= MinReference)

\* the step is a proof turn that created one PaymentRecord for the session's
\* deal, then wrote funded, then cleared the session
ProofTaken ==
    LET u == last'.user
        d == data[u].deal_id
        rec == payments'[Len(payments')]
    IN  /\ Len(payments') = Len(payments) + 1
        /\ SubSeq(payments', 1, Len(payments)) = payments
        /\ rec.deal_id = d
        /\ rec.payer_id = u
        /\ rec.payment_method = (IF last'.msg.kind = "photo" THEN "UPI_SCREENSHOT"
                                 ELSE "UPI_REFERENCE")
        /\ rec.status = "pending_verification"
        /\ deals'[d].status = "funded"
        /\ stage'[u] = Idle
        /\ data'[u] = EmptyData
        /\ last'.eff = <<"create_payment_record", "update_deal_status", "clear">>

\* a proof turn of a session that has a deal context
ProofTurn ==
    /\ last'.op = "process_payment_proof"
    /\ stage[last'.user] = waiting_for_payment_proof
    /\ data[last'.user].deal_id # None

\* C8 as claimed: in awaiting_proof with a deal context, an image or a text of
\* at least 8 characters creates exactly one PaymentRecord (payer the sender,
\* method by kind, pending_verification), then writes funded, then clears the
\* session.
C8_ProofTakenAsClaimed ==
    [][(ProofTurn /\ IsProofAsClaimed(last'.msg)) => ProofTaken]_vars

\* C8 amended: the same, for an image or a text that has at least 8 characters
\* after the blanks at its ends are cut.
C8_ProofTaken ==
    [][(ProofTurn /\ IsProof(last'.msg)) => ProofTaken]_vars

\* C8 witness: a reference of exactly eight characters was taken as proof of a
\* deal that is now funded
C8_Witness ==
    /\ last.op = "process_payment_proof"
    /\ last.out = "verified"
    /\ StrLen(Strip(last.msg.text)) = MinReference
    /\ deals[last.deal].status = "funded"
    /\ Len(payments) >= 1
    /\ stage[last.user] = Idle

(***************************************************************************)
(* Properties of the authoring flow.                                       *)
(***************************************************************************)
\* C7: a confirm after a description, an amount and terms were accepted
\* creates one deal: its creator is the sender, its status is created, its
\* description, amount and terms are the values those turns accepted, no other
\* deal changes, and the sender's session is cleared.
C7_ConfirmMaterializes ==
    [][last'.op = "confirm_deal_creation"
       => LET u == last'.user
              d == last'.deal
          IN  /\ last'.out = "created"
              /\ deals'[d] = [deal_id |-> d, creator_id |-> u,
                              description |-> accepted[u].description,
                              amount |-> accepted[u].amount,
                              terms |-> accepted[u].terms,
                              status |-> "created"]
              /\ accepted[u].description # NoText
              /\ accepted[u].amount # NoFloat
              /\ accepted[u].terms # NoText
              /\ \A e \in DealIds \ {d} : deals'[e] = deals[e]
              /\ stage'[u] = Idle
              /\ data'[u] = EmptyData]_vars

\* C7 witness: a deal was created from "500,000", a ten-character description
\* and twenty-character terms, and its author's session is idle
C7_Witness ==
    /\ last.op = "confirm_deal_creation"
    /\ last.out = "created"
    /\ deals[last.deal].creator_id = last.user
    /\ deals[last.deal].status = "created"
    /\ deals[last.deal].description = Chars(0, 10, 0)
    /\ deals[last.deal].amount = Fin(MaxAmount * 100)
    /\ deals[last.deal].terms = Chars(0, 20, 0)
    /\ stage[last.user] = Idle
    /\ data[last.user] = EmptyData

\* the step is a turn of handler op on a text message
TextTurn(op) == last'.op = op /\ last'.msg.kind = "text"

\* the turn stored `value` under `field` and moved the session to `next`
StoredAndAdvanced(field, value, next) ==
    /\ data'[last'.user] = [data[last'.user] EXCEPT ![field] = value]
    /\ stage'[last'.user] = next

\* C9 as claimed: a description is accepted iff the text has 10 to 500
\* characters, terms iff the text has 20 to 1000 characters.
C9_AcceptedIffLengthAsClaimed ==
    [][/\ TextTurn("process_description")
          => (last'.out = "accepted"
              <=> StrLen(last'.msg.text) \in MinDescription..MaxDescription)
       /\ TextTurn("process_terms")
          => (last'.out = "accepted"
              <=> StrLen(last'.msg.text) \in MinTerms..MaxTerms)]_vars

\* C9 amended: a description is accepted iff the text, with the blanks at its
\* ends cut, has 10 to 500 characters, and terms iff it then has 20 to 1000;
\* an accepted text is stored stripped and the stage moves on to
\* waiting_for_amount, resp. waiting_for_confirmation.
C9_AcceptedIffStrippedLength ==
    [][/\ TextTurn("process_description")
          => /\ last'.out = "accepted"
                <=> StrLen(Strip(last'.msg.text)) \in MinDescription..MaxDescription
             /\ last'.out = "accepted"
                => StoredAndAdvanced("description", Strip(last'.msg.text),
                                     waiting_for_amount)
       /\ TextTurn("process_terms")
          => /\ last'.out = "accepted"
                <=> StrLen(Strip(last'.msg.text)) \in MinTerms..MaxTerms
             /\ last'.out = "accepted"
                => StoredAndAdvanced("terms", Strip(last'.msg.text),
                                     waiting_for_confirmation)]_vars

\* C9 witness: terms of exactly 1000 characters were accepted after a
\* description of exactly 500 characters
C9_Witness ==
    /\ last.op = "process_terms"
    /\ last.out = "accepted"
    /\ StrLen(last.msg.text) = MaxTerms
    /\ stage[last.user] = waiting_for_confirmation
    /\ StrLen(data[last.user].description) = MaxDescription
    /\ data[last.user].terms = last.msg.text

\* a number from 100 to 500000
InRange(amount) ==
    amount.k = "fin" /\ MinAmount * 100 <= amount.h /\ amount.h <= MaxAmount * 100

\* C10: an amount input is accepted iff it parses as a number and the number
\* is from 100 to 500000; everything else the parser takes, the special
\* numeric tokens included, is rejected.
C10_AmountAcceptedIffInRange ==
    [][TextTurn("process_amount")
       => (last'.out = "accepted"
           <=> InRange(ParseFloat(RemoveCommas(Strip(last'.msg.text)))))]_vars

(***************************************************************************)
(* Properties of rejected input.                                           *)
(***************************************************************************)
\* the stage whose handler op is
StageOf(op) ==
    CASE op = "process_description" -> waiting_for_description
      [] op = "process_amount" -> waiting_for_amount
      [] op = "process_terms" -> waiting_for_terms
      [] op = "process_payment_proof" -> waiting_for_payment_proof
      [] OTHER -> Idle

\* message m fails the validation of the stage handled by op: a text too
\* short or too long, an amount that is no number or lies below or above the
\* range, a reference of fewer than 8 characters, neither image nor text
FailsValidation(op, m) ==
    LET body == Strip(m.text)
        amount == ParseFloat(RemoveCommas(body))
    IN  CASE op = "process_description" ->
                m.kind = "text" /\ StrLen(body) \notin MinDescription..MaxDescription
          [] op = "process_terms" ->
                m.kind = "text" /\ StrLen(body) \notin MinTerms..MaxTerms
          [] op = "process_amount" ->
                /\ m.kind = "text"
                /\ \/ amount = ValueError
                   \/ FloatLt(amount, Fin(MinAmount * 100))
                   \/ FloatGt(amount, Fin(MaxAmount * 100))
          [] op = "process_payment_proof" ->
                \/ m.kind = "text" /\ StrLen(body) < MinReference
                \/ m.kind = "other"
          [] OTHER -> FALSE

SessionOps == {"confirm_deal_creation", "process_description", "process_payment_proof"}

Target(op) == IF op = "release_payment" THEN "completed" ELSE "disputed"

\* the step is the status write of the release or dispute call in slot s
WriteStep(s) ==
    /\ inflight[s].op \in {"release_payment", "create_dispute"}
    /\ inflight[s].pc = "update_deal_status"
    /\ inflight'[s] = NoTask

\* C14: a release and a dispute of the same funded deal can both pass their
\* read and both write: a call that has passed its read writes its status
\* whatever the status has become since, so the status written last stays and
\* the other transition is lost.
C14_LaterWriteWins ==
    [][\A s \in Slots :
          WriteStep(s)
          => deals'[inflight[s].deal].status = Target(inflight[s].op)]_vars

\* C14 witness: a dispute that had read funded wrote disputed over the
\* completed that a release, which had read funded too, wrote in between
C14_Witness ==
    /\ last.op = "create_dispute"
    /\ last.out = "dispute_created"
    /\ last.seen = "funded"
    /\ last.before = "completed"
    /\ deals[last.deal].status = "disputed"

(***************************************************************************)
(* Properties of the session across flows.                                 *)
(***************************************************************************)
\* the fields a session holds right after pay-deal on deal d, nothing else
PaymentFields(d) == [EmptyData EXCEPT !.deal_id = d, !.amount = deals[d].amount]

\* C15: starting create-deal or pay-deal while a stale flow is open replaces
\* it: afterwards the stage is the first stage of the new flow and the
\* collected fields hold nothing of the stale flow.
C15_NewFlowReplacesStale ==
    [][/\ (last'.op = "start_deal_creation" /\ last'.out = "started")
          => /\ stage'[last'.user] = waiting_for_description
             /\ data'[last'.user] = EmptyData
       /\ (last'.op = "initiate_payment" /\ last'.out = "initiated")
          => /\ stage'[last'.user] = waiting_for_payment_proof
             /\ data'[last'.user] = PaymentFields(last'.deal)]_vars

\* the start command, the main-menu action and the cancel signal
ClearingOps == {"start_handler", "show_main_menu", "cancel_deal_creation"}

\* C16: from every stage the start command, the main-menu action and the
\* cancel signal, once their handler runs, leave the session idle with no
\* collected field and create no deal, no payment record and write no status.
C16_ClearingLeavesIdle ==
    [][(last'.op \in ClearingOps /\ last'.out # "rate_limited")
       => /\ stage'[last'.user] = Idle
          /\ data'[last'.user] = EmptyData
          /\ UNCHANGED <<deals, payments>>
          /\ \A i \in 1..Len(last'.eff) : last'.eff[i] \in {"create_user", "clear"}]_vars

\* C16 witness: the cancel signal arrived while a proof was awaited; the
\* session is idle and empty and the deal is as it was
C16_Witness ==
    /\ last.op = "cancel_deal_creation"
    /\ last.from = waiting_for_payment_proof
    /\ stage[last.user] = Idle
    /\ data[last.user] = EmptyData
    /\ \E d \in DealIds : deals[d].status = "created"
    /\ payments = <<>>

\* C17: every payment record references a deal of the store and carries that
\* deal's amount, whatever authoring, pay-deal, regenerate-QR and proof
\* events came before.
C17_PaymentMatchesDeal ==
    \A i \in 1..Len(payments) :
        /\ Exists(payments[i].deal_id)
        /\ payments[i].amount = deals[payments[i].deal_id].amount

\* C18: every deal of the store has a description of 10 to 500 characters,
\* an amount from 100 to 500000 and terms of 20 to 1000 characters.
C18_DealFieldsInBounds ==
    \A d \in DealIds :
        Exists(d)
        => /\ StrLen(deals[d].description) \in MinDescription..MaxDescription
           /\ InRange(deals[d].amount)
           /\ StrLen(deals[d].terms) \in MinTerms..MaxTerms

C20_DealIdsAreFresh ==
    [][(last'.op = "confirm_deal_creation" /\ last'.out = "created")
       => ~Exists(last'.deal)]_vars

(***************************************************************************)
(* Frame properties of the store.                                          *)
(***************************************************************************)
\* the row of deal d keeps every column but the status
Immutable(d) ==
    /\ deals'[d].deal_id = deals[d].deal_id
    /\ deals'[d].creator_id = deals[d].creator_id
    /\ deals'[d].description = deals[d].description
    /\ deals'[d].amount = deals[d].amount
    /\ deals'[d].terms = deals[d].terms

\* the requests that write a status
StatusOps ==
    {"process_payment_proof", "release_payment", "create_dispute",
     "admin_resolve_dispute", "admin_cancel_deal"}

\* C21: no request changes the deal_id, creator_id, description, amount or
\* terms of a deal of the store; a status transition changes at most the
\* status of the deal it addresses, leaves every other deal as it was and
\* leaves every payment record already in the store as it was.
C21_OnlyStatusChanges ==
    [][/\ \A d \in DealIds : Exists(d) => Immutable(d)
       /\ last'.op \in StatusOps
          => /\ \A d \in DealIds \ {last'.deal} : deals'[d] = deals[d]
             /\ Len(payments') >= Len(payments)
             /\ SubSeq(payments', 1, Len(payments)) = payments]_vars

(***************************************************************************)
(* Properties of the order of the authoring flow.                          *)
(***************************************************************************)
\* the step writes a new row under id d
Created(d) == deals'[d] # deals[d] /\ (~Exists(d) \/ ~Immutable(d))

\* user u enters stage `to`: it is by request op of u, accepted in stage `from`
EntersOnlyBy(u, to, op, from) ==
    (stage'[u] = to /\ stage[u] # to)
    => /\ last'.op = op /\ last'.user = u /\ last'.out = "accepted"
       /\ stage[u] = from

\* C22: a deal is created only by a confirm received in
\* waiting_for_confirmation; that stage is entered only by accepted terms in
\* waiting_for_terms, that one only by an accepted amount in
\* waiting_for_amount, that one only by an accepted description in
\* waiting_for_description; a confirm received in any other stage creates no
\* deal and changes neither session nor store.
C22_CreatedOnlyByConfirm ==
    [][/\ (\E d \in DealIds : Created(d))
          => /\ last'.op = "confirm_deal_creation"
             /\ last'.from = waiting_for_confirmation
       /\ \A u \in Users :
             /\ EntersOnlyBy(u, waiting_for_confirmation, "process_terms",
                             waiting_for_terms)
             /\ EntersOnlyBy(u, waiting_for_terms, "process_amount",
                             waiting_for_amount)
             /\ EntersOnlyBy(u, waiting_for_amount, "process_description",
                             waiting_for_description)
             /\ stage'[u] = waiting_for_confirmation
                => /\ accepted'[u].description # NoText
                   /\ accepted'[u].amount # NoFloat
                   /\ accepted'[u].terms # NoText
       /\ (last'.op \in {"confirm_deal", "confirm_deal_creation"}
           /\ last'.from # waiting_for_confirmation)
          => /\ last'.out = "unhandled"
             /\ UNCHANGED <<users, deals, payments, stage, data>>]_vars

\* C22 witness: after a pass that reached the confirmation and a new
\* create_deal, the session is in waiting_for_description and still holds
\* description, amount and terms; the confirm received there created nothing
C22_Witness ==
    /\ last.op = "confirm_deal"
    /\ last.out = "unhandled"
    /\ last.from = waiting_for_description
    /\ stage[last.user] = waiting_for_description
    /\ data[last.user].description # NoText
    /\ data[last.user].amount # NoFloat
    /\ data[last.user].terms # NoText
    /\ \A d \in DealIds : ~Exists(d)

(***************************************************************************)
(* Properties of the error replies.                                        *)
(***************************************************************************)
\* the three replies of process_amount to an amount it turns away
AmountErrors == {"invalid_number", "below_min", "above_max"}

\* a number below 100, -inf included
BelowMinimum(amount) ==
    amount.k = "ninf" \/ (amount.k = "fin" /\ amount.h < MinAmount * 100)

\* a number above 500000, inf included
AboveMaximum(amount) ==
    amount.k = "inf" \/ (amount.k = "fin" /\ amount.h > MaxAmount * 100)

\* C23: in waiting_for_amount a text that is no numeral gets the
\* invalid-number reply and only such a text gets it; a number below 100 gets
\* the below-minimum reply, a number above 500000 the above-maximum reply;
\* every amount turned away gets exactly one of the three replies.
C23_AmountErrorsAreDistinct ==
    [][TextTurn("process_amount")
       => LET text == Strip(last'.msg.text)
              amount == ParseFloat(RemoveCommas(text))
          IN  /\ text.form = "chars" => last'.out = "invalid_number"
              /\ last'.out = "invalid_number" => amount = ValueError
              /\ BelowMinimum(amount) => last'.out = "below_min"
              /\ AboveMaximum(amount) => last'.out = "above_max"
              /\ last'.out # "accepted"
                 => Cardinality({o \in AmountErrors : o = last'.out}) = 1]_vars

\* C23 witness: "99.99" was answered with the below-minimum reply and the
\* session still awaits the amount
C23_Witness ==
    /\ last.op = "process_amount"
    /\ last.out = "below_min"
    /\ last.msg.kind = "text"
    /\ ParseFloat(RemoveCommas(Strip(last.msg.text))) = Fin(MinAmount * 100 - 1)
    /\ stage[last.user] = waiting_for_amount
    /\ data[last.user].amount = NoFloat

\* C24: when the payment-instructions image cannot be loaded or sent during
\* pay-deal or regenerate-QR, the error is reported and the session of the
\* caller is as it was before the request: the stage is not moved to
\* waiting_for_payment_proof and no deal context is written to the fields.
C24_QrFailureKeepsSession ==
    [][(last'.op \in {"initiate_payment", "regenerate_qr"} /\ last'.out = "qr_error")
       => /\ stage'[last'.user] = stage[last'.user]
          /\ data'[last'.user] = data[last'.user]]_vars

(***************************************************************************)
(* Frame properties of the sessions.                                       *)
(***************************************************************************)
\* C25: the stage and the collected fields of a user change only in a step
\* that handles a request of that user: requests of other users and status
\* writes, also on the deal a session in waiting_for_payment_proof refers to,
\* leave them as they were.
C25_SessionChangesOnlyByOwner ==
    [][\A u \in Users :
          (stage'[u] # stage[u] \/ data'[u] # data[u]) => last'.user = u]_vars

\* C25 witness: the operator cancelled the deal whose proof usr is awaited
\* to send, while the operator's own session awaits an amount; the session of
\* usr still awaits the proof of that deal
C25_Witness ==
    /\ last.op = "admin_cancel_deal"
    /\ last.user = "op"
    /\ last.out = "deal_cancelled"
    /\ deals[last.deal].status = "cancelled"
    /\ stage["usr"] = waiting_for_payment_proof
    /\ data["usr"].deal_id = last.deal
    /\ stage["op"] = waiting_for_amount

RecordsOf(d) == {i \in 1..Len(payments) : payments[i].deal_id = d}

\* C28: a deal in status funded has a payment record in the store; a proof
\* turn in which create_payment_record fails writes no status.
C28_FundedHasRecord ==
    /\ [](\A d \in DealIds : deals[d].status = "funded" => RecordsOf(d) # {})
    /\ [][(last' # last /\ last'.op = "process_payment_proof"
                        /\ last'.out = "exception")
          => UNCHANGED <<deals, payments>>]_vars

\* C28 witness: the record of D1 could not be created; D1 is still in status
\* created, without a record, and the session still awaits the proof
C28_Witness ==
    /\ last.op = "process_payment_proof"
    /\ last.out = "exception"
    /\ last.deal = "D1"
    /\ deals["D1"].status = "created"
    /\ RecordsOf("D1") = {}
    /\ stage[last.user] = waiting_for_payment_proof

(***************************************************************************)
(* Progress of the two flows.                                              *)
(***************************************************************************)
\* the confirm of user u has returned: his deal is in the store and his
\* session is idle
Materialized(u) ==
    /\ last.op = "confirm_deal_creation"
    /\ last.user = u
    /\ last.out = "created"
    /\ Exists(last.deal)
    /\ deals[last.deal].creator_id = u
    /\ stage[u] = Idle

====
